---- MODULE Spec2Model ----
(***************************************************************************)
(* Multi-agent orchestration core of agentic-ecosystem: the in-memory      *)
(* MessageBroker (src/src/utils/message_broker.py), the BaseAgent mailbox  *)
(* loop (src/src/agents/base_agent.py) and the OrchestratorAgent project   *)
(* state machine (src/src/orchestrator/orchestrator_agent.py).             *)
(*                                                                         *)
(* Granularity: asyncio is cooperative, so one action is the code that     *)
(* runs between two points where a coroutine really suspends.  Those       *)
(* points are the broker loop's queue.get() and a handler's query_llm().   *)
(***************************************************************************)
EXTENDS Integers, Sequences, FiniteSets, TLC

\* ------------------------------------------------------------------ bounds
\* Number of Message objects the environment may create (publish_message
\* calls by outside code plus start_project calls).
MaxMsgs == 2
\* Number of distinct project ids in play.
MaxProjects == 2
\* Calls of start() on one agent
MaxStarts == 2

\* ------------------------------------------------------- enumerations (models)
AgentType == {"ba", "architect", "developer", "tester", "orchestrator"}

MessageType ==
    {"specification", "query", "response", "approval", "artifact", "error", "status"}

\* The agents instantiated in the model: the Orchestrator and one worker.
\* All workers share the BaseAgent loop; main_server creates one of each.
Agents == {"orchestrator", "ba"}

ProjectIds == 1..MaxProjects

\* The project ids that messages published by outside code name.
EnvProjects == {1, 2}

\* Public methods and attributes of class MessageBroker.  BaseAgent.send_message
\* looks up `publish` on it.
MessageBrokerAttrs ==
    {"connect", "disconnect", "publish_message", "subscribe", "unsubscribe",
     "_process_messages", "get_agent_topic", "get_broadcast_topic",
     "subscribers", "message_queue", "connected", "_running", "logger"}

\* topic=f"agents/{agent_type.value}" : the topic is identified by the agent value.
Topic(a) == a

\* ----------------------------------------------------------------- sentinels
\* Python None for the optional arguments of _update_project_status.
NoPhase == ""
NoPct == -1
NoList == << <<"None", "">> >>
NoAgents == <<"None">>
NoIssues == <<"None">>

\* A metadata dict: the keys the code reads or writes, absent keys having the
\* default that the code's .get(key, default) supplies.
Meta(phase, qa_signoff, clarification_response) ==
    [phase |-> phase, qa_signoff |-> qa_signoff,
     clarification_response |-> clarification_response,
     resolved |-> FALSE, pending_clarification |-> FALSE,
     recovery_attempt |-> FALSE, workflow_restart |-> FALSE,
     original_message_id |-> 0]

EmptyMeta == Meta("unknown", FALSE, FALSE)

\* {"recovery_attempt": True} of the _recover_*_error requests and
\* {"workflow_restart": True} of the restart request.
RecoveryMeta == [EmptyMeta EXCEPT !.recovery_attempt = TRUE]
RestartMeta == [EmptyMeta EXCEPT !.workflow_restart = TRUE]

\* The immutable fields of a Message (its metadata dict lives in `metadata`).
Message(from_agent, to_agent, message_type, content, project_id) ==
    [from_agent |-> from_agent, to_agent |-> to_agent,
     message_type |-> message_type, content |-> content,
     project_id |-> project_id]

VARIABLES
    msgs,              \* Message objects by identity: id -> immutable fields
    metadata,          \* id -> the message's (mutable) metadata dict
    connected,         \* MessageBroker.connected, per owning agent
    running,           \* MessageBroker._running
    subscribers,       \* MessageBroker.subscribers: agent -> [topic -> number of handle_message callbacks]
    message_queue,     \* MessageBroker.message_queue: Seq of <<topic, id>>
    tasks,             \* the _process_messages tasks created by connect(), per broker
    status,            \* AgentState.status
    task_queue,        \* BaseAgent.task_queue: Seq of ids
    projects,          \* OrchestratorAgent.projects: project_id -> description
    project_statuses,  \* OrchestratorAgent.project_statuses
    workflow_history,  \* OrchestratorAgent.workflow_history: project_id -> Seq of ids
    handled,           \* history: ids handed to process_message by process_next_task, per agent
    wf,                \* SoftwareDevelopmentWorkflow: one run of the LangGraph graph
    last               \* history: what the last step did

vars == <<msgs, metadata, connected, running, subscribers, message_queue, tasks,
          status, task_queue, projects, project_statuses, workflow_history,
          handled, wf, last>>

\* ---------------------------------------------------------------- history
NoEvent ==
    [op |-> "init", agent |-> "none", msg |-> 0, project |-> 0,
     started |-> <<>>, inflight |-> 0, sends |-> <<>>, ret |-> 0,
     pending |-> <<>>, outcome |-> "none", dropped |-> FALSE, failed |-> <<>>]

\* ------------------------------------------------------------------ context
\* The objects one agent's code can touch during a step, threaded through the
\* operators below and written back by Commit.
Ctx(a) ==
    [self |-> a,
     msgs |-> msgs, metadata |-> metadata,
     connected |-> connected[a], mq |-> message_queue[a],
     st |-> status[a], tq |-> task_queue[a], handled |-> handled[a],
     projects |-> projects, project_statuses |-> project_statuses,
     workflow_history |-> workflow_history,
     sends |-> <<>>, started |-> <<>>, failed |-> <<>>, susp |-> FALSE, cur |-> 0,
     cbi |-> 0, raised |-> FALSE, exc |-> FALSE]

\* A local variable: expression v is evaluated once and F is applied to its
\* value (a name bound by a set constructor is bound to a value).
Bind(v, F(_)) == CHOOSE r \in {F(x) : x \in {v}} : TRUE

\* MessageBroker.publish_message
publish_message(c, topic, m) ==
    IF ~c.connected THEN c
    ELSE [c EXCEPT !.mq = Append(@, <<topic, m>>)]

\* BaseAgent.send_message.  Line 146 calls self.message_broker.publish(...);
\* MessageBroker has no such attribute, so the call raises AttributeError after
\* the Message was built and before anything is enqueued.  The record appended
\* to c.sends notes the attempt: route is the broker that accepted the message,
\* "none" if no broker did.
send_message(c, to_agent, message_type, content, project_id, meta) ==
    IF "publish" \in MessageBrokerAttrs
    THEN LET id == Len(c.msgs) + 1
             c1 == [c EXCEPT !.msgs = Append(@, Message(c.self, to_agent, message_type, content, project_id)),
                             !.metadata = Append(@, meta)]
             c2 == publish_message(c1, Topic(to_agent), id)
         IN [c2 EXCEPT !.raised = FALSE,
                       !.sends = Append(@, [from_agent |-> c.self, to_agent |-> to_agent,
                                            message_type |-> message_type, project_id |-> project_id,
                                            content |-> content, meta |-> meta,
                                            route |-> IF c.connected THEN c.self ELSE "none",
                                            raised |-> FALSE])]
    ELSE [c EXCEPT !.raised = TRUE,
                   !.sends = Append(@, [from_agent |-> c.self, to_agent |-> to_agent,
                                        message_type |-> message_type, project_id |-> project_id,
                                        content |-> content, meta |-> meta,
                                        route |-> "none", raised |-> TRUE])]

\* BaseAgent.send_error_message
send_error_message(c, original) ==
    send_message(c, c.msgs[original].from_agent, "error", "Error processing",
                 c.msgs[original].project_id, [EmptyMeta EXCEPT !.original_message_id = original])

\* ---------------------------------------------------- OrchestratorAgent
ProjectStatus(current_phase, completion_percentage, active_agents, next_actions) ==
    [current_phase |-> current_phase, completion_percentage |-> completion_percentage,
     active_agents |-> active_agents, next_actions |-> next_actions, issues |-> <<>>]

\* OrchestratorAgent._update_project_status
update_project_status(c, project_id, current_phase, completion_percentage, active_agents, next_actions, issues) ==
    LET ps0 == IF project_id \in DOMAIN c.project_statuses
               THEN c.project_statuses
               ELSE (project_id :> ProjectStatus("unknown", 0, <<>>, <<>>)) @@ c.project_statuses
        s0 == ps0[project_id]
        s1 == IF current_phase # NoPhase THEN [s0 EXCEPT !.current_phase = current_phase] ELSE s0
        s2 == IF completion_percentage # NoPct
              THEN [s1 EXCEPT !.completion_percentage = completion_percentage] ELSE s1
        s3 == IF active_agents # NoAgents THEN [s2 EXCEPT !.active_agents = active_agents] ELSE s2
        s4 == IF next_actions # NoList THEN [s3 EXCEPT !.next_actions = next_actions] ELSE s3
        s5 == IF issues # NoIssues THEN [s4 EXCEPT !.issues = @ \o issues] ELSE s4
    IN [c EXCEPT !.project_statuses = [ps0 EXCEPT ![project_id] = s5]]

\* A _handle_user_specification that keeps the new project alone in projects.
handle_user_specification_forgets_others(c, m) ==
    LET msg == c.msgs[m]
        p == msg.project_id
    IN Bind([c EXCEPT !.projects = (p :> msg.content),
                      !.project_statuses =
                          (p :> ProjectStatus("requirements_analysis", 0, <<"ba">>,
                                              << <<"BA Agent analyzing requirements", "">> >>))
                          @@ [q \in DOMAIN @ \ {p} |-> @[q]]],
            LAMBDA c1 : [send_message(c1, "ba", "specification", msg.content, p, EmptyMeta)
                            EXCEPT !.raised = FALSE])

\* OrchestratorAgent._handle_user_specification.  The exception send_message
\* raises is caught by the handler's own except clause (line 120).
handle_user_specification(c, m) ==
    LET msg == c.msgs[m]
        p == msg.project_id
    IN Bind([c EXCEPT !.projects = (p :> msg.content) @@ [q \in DOMAIN @ \ {p} |-> @[q]],
                      !.project_statuses =
                          (p :> ProjectStatus("requirements_analysis", 0, <<"ba">>,
                                              << <<"BA Agent analyzing requirements", "">> >>))
                          @@ [q \in DOMAIN @ \ {p} |-> @[q]]],
            LAMBDA c1 : [send_message(c1, "ba", "specification", msg.content, p, EmptyMeta)
                            EXCEPT !.raised = FALSE])

\* OrchestratorAgent._handle_agent_query with the four _handle_*_clarification_request
handle_agent_query(c, m) ==
    LET msg == c.msgs[m]
    IN Bind(IF msg.from_agent = "ba"
            THEN [c EXCEPT !.metadata[m].pending_clarification = TRUE]
            ELSE c,
            LAMBDA c1 :
              update_project_status(c1, msg.project_id, "awaiting_clarification", NoPct, NoAgents,
                  << <<"Waiting for user response to agent query", msg.from_agent>> >>,
                  NoIssues))

\* OrchestratorAgent._handle_ba_status_update
handle_ba_status_update(c, m) ==
    LET p == c.msgs[m].project_id
        phase == c.metadata[m].phase
    IN IF phase = "test_preparation_complete"
       THEN update_project_status(c, p, "test_preparation", 20, <<"tester">>,
                                  << <<"QA Agent preparing test cases", "">> >>, NoIssues)
       ELSE IF phase = "development_complete"
       THEN update_project_status(c, p, "qa_testing", 70, <<"tester">>,
                                  << <<"QA Agent testing application", "">> >>, NoIssues)
       ELSE c

\* OrchestratorAgent._handle_architect_status_update
handle_architect_status_update(c, m) ==
    update_project_status(c, c.msgs[m].project_id, "architecture_design", 30,
                          <<"architect", "ba">>,
                          << <<"BA Agent reviewing architecture design", "">> >>, NoIssues)

\* OrchestratorAgent._handle_developer_status_update
handle_developer_status_update(c, m) ==
    IF c.metadata[m].phase = "development_complete"
    THEN update_project_status(c, c.msgs[m].project_id, "development_complete", 60,
                               <<"tester">>,
                               << <<"QA Agent testing developed application", "">> >>, NoIssues)
    ELSE c

\* A completion that leaves active_agents as they were.
handle_project_completion_keeps_agents(c, m) ==
    LET c1 == update_project_status(c, c.msgs[m].project_id, "completed", 100, NoAgents,
                                    << <<"Project completed and ready for deployment", "">> >>,
                                    NoIssues)
    IN [c1 EXCEPT !.susp = TRUE, !.cur = m]

\* OrchestratorAgent._handle_project_completion up to the await of query_llm in
\* _generate_final_project_summary: the handler is left suspended there.
handle_project_completion(c, m) ==
    LET c1 == update_project_status(c, c.msgs[m].project_id, "completed", 100, <<>>,
                                    << <<"Project completed and ready for deployment", "">> >>,
                                    NoIssues)
    IN [c1 EXCEPT !.susp = TRUE, !.cur = m]

\* OrchestratorAgent._handle_tester_status_update
handle_tester_status_update(c, m) ==
    IF c.metadata[m].qa_signoff
    THEN handle_project_completion(c, m)
    ELSE update_project_status(c, c.msgs[m].project_id, "qa_review", 85, <<"developer">>,
                               << <<"Developer fixing issues identified by QA", "">> >>, NoIssues)

\* OrchestratorAgent._handle_status_update
handle_status_update(c, m) ==
    LET from_agent == c.msgs[m].from_agent
    IN CASE from_agent = "ba" -> handle_ba_status_update(c, m)
         [] from_agent = "architect" -> handle_architect_status_update(c, m)
         [] from_agent = "developer" -> handle_developer_status_update(c, m)
         [] from_agent = "tester" -> handle_tester_status_update(c, m)
         [] OTHER -> c

\* An escalation that leaves active_agents as they were.
escalate_error_keeps_agents(c, project_id, error_details) ==
    update_project_status([c EXCEPT !.raised = FALSE], project_id, "failed", 0, NoAgents,
                          << <<"Manual intervention required", "">> >>,
                          << error_details >>)

\* OrchestratorAgent._escalate_error
escalate_error(c, project_id, error_details) ==
    update_project_status([c EXCEPT !.raised = FALSE], project_id, "failed", 0, <<>>,
                          << <<"Manual intervention required", "">> >>,
                          << error_details >>)

\* OrchestratorAgent._recover_ba_error, _recover_architect_error,
\* _recover_developer_error, _recover_tester_error
recover_error(c, m) ==
    send_message(c, c.msgs[m].from_agent, "specification", "recovery request",
                 c.msgs[m].project_id, RecoveryMeta)

\* OrchestratorAgent._restart_workflow_from_last_stable_state
restart_workflow_from_last_stable_state(c, project_id) ==
    IF project_id \in DOMAIN c.projects
    THEN Bind(send_message(c, "ba", "specification", c.projects[project_id],
                           project_id, RestartMeta),
              LAMBDA c1 :
                IF c1.raised
                THEN escalate_error(c1, project_id, "Critical error: Workflow restart failed")
                ELSE update_project_status(c1, project_id, "workflow_restart", NoPct, NoAgents,
                         << <<"Restarting workflow from requirements analysis", "">> >>, NoIssues))
    ELSE c

\* OrchestratorAgent._attempt_error_recovery
attempt_error_recovery(c, m) ==
    LET from_agent == c.msgs[m].from_agent
    IN Bind(IF from_agent \in {"ba", "architect", "developer", "tester"}
            THEN recover_error(c, m)
            ELSE restart_workflow_from_last_stable_state(c, c.msgs[m].project_id),
            LAMBDA c1 :
              IF c1.raised
              THEN escalate_error(c1, c.msgs[m].project_id, "Critical error: AttributeError")
              ELSE c1)

\* OrchestratorAgent._handle_error
handle_error(c, m) ==
    Bind(update_project_status(c, c.msgs[m].project_id, "error_recovery", NoPct, NoAgents,
                               << <<"Recovering from agent error", c.msgs[m].from_agent>> >>,
                               NoIssues),
         LAMBDA c1 : attempt_error_recovery(c1, m))

\* A _handle_response that takes the project back to requirements analysis.
handle_response_resumes(c, m) ==
    update_project_status(c, c.msgs[m].project_id, "requirements_analysis", NoPct, NoAgents,
                          NoList, NoIssues)

\* OrchestratorAgent._handle_response.  An exception of send_message leaves the
\* handler and is caught by process_message (line 75).
handle_response(c, m) ==
    IF c.metadata[m].clarification_response
    THEN send_message(c, "ba", "response", c.msgs[m].content, c.msgs[m].project_id, EmptyMeta)
    ELSE c

\* OrchestratorAgent.process_message, up to its end or to the await at which it
\* is left suspended (c.susp).
orchestrator_process_message(c, m) ==
    LET msg == c.msgs[m]
        p == msg.project_id
        h0 == IF p \in DOMAIN c.workflow_history
              THEN c.workflow_history
              ELSE (p :> <<>>) @@ c.workflow_history
    IN Bind([c EXCEPT !.workflow_history = [h0 EXCEPT ![p] = Append(@, m)]],
            LAMBDA c1 :
              [(CASE msg.message_type = "specification" -> handle_user_specification(c1, m)
                  [] msg.message_type = "query" -> handle_agent_query(c1, m)
                  [] msg.message_type = "status" -> handle_status_update(c1, m)
                  [] msg.message_type = "error" -> handle_error(c1, m)
                  [] msg.message_type = "response" -> handle_response(c1, m)
                  [] OTHER -> c1)
               EXCEPT !.raised = FALSE])

\* ------------------------------------------------------------ worker agent
\* The message types whose BAAgent handler reaches an await of query_llm
\* whatever the agent's project cache holds (_analyze_specification,
\* _handle_query).  STATUS, ERROR and APPROVAL only log a warning.  RESPONSE and
\* ARTIFACT, whose handlers depend on that cache, are not among the messages
\* the model publishes to BA.
WorkerAwaits == {"specification", "query"}

\* What the awaited LLM call can lead to, by the type of the message in hand:
\* the handler's branches after query_llm (ba_agent.py 108-128, 555-563), or an
\* exception raised by the call.
LLMOutcomes(a, message_type) ==
    IF a = "orchestrator" THEN {"ok", "raise"}
    ELSE IF message_type = "specification" THEN {"clarify", "proceed", "raise"}
    ELSE {"ok", "raise"}

\* BAAgent.process_message up to the await of query_llm.
worker_process_message(c, m) ==
    IF c.msgs[m].message_type \in WorkerAwaits
    THEN [c EXCEPT !.susp = TRUE, !.cur = m]
    ELSE c

\* BAAgent.process_message from the return of query_llm to its end: the send of
\* the branch taken, and the except clause (line 64) that reports a failure
\* with send_error_message, whose own exception leaves process_message.
worker_resume(c, m, outcome) ==
    LET msg == c.msgs[m]
    IN Bind(CASE outcome = "clarify" ->
                   send_message(c, "orchestrator", "query", "clarifications", msg.project_id, EmptyMeta)
              [] outcome = "proceed" ->
                   send_message(c, "architect", "specification", "architect brief", msg.project_id, EmptyMeta)
              [] outcome = "ok" ->
                   send_message(c, msg.from_agent, "response", "answer", msg.project_id, EmptyMeta)
              [] OTHER -> [c EXCEPT !.raised = TRUE],
            LAMBDA c1 : IF c1.raised THEN send_error_message(c1, m) ELSE c1)

\* ------------------------------------------------------------- BaseAgent
\* process_message of the agent whose context c is, up to its end or its await.
process_message(c, m) ==
    IF c.self = "orchestrator"
    THEN orchestrator_process_message(c, m)
    ELSE worker_process_message(c, m)

\* The rest of process_message after the awaited call returned.  The
\* Orchestrator's only await is inside _generate_final_project_summary, which
\* catches the LLM's exception and is followed by _notify_user alone.
resume_message(c, m, outcome) ==
    IF c.self = "orchestrator"
    THEN [c EXCEPT !.susp = FALSE, !.raised = FALSE]
    ELSE Bind([c EXCEPT !.susp = FALSE], LAMBDA c1 : worker_resume(c1, m, outcome))

\* list.pop(0) of task_queue (base_agent.py 103)
PopTask(q) == [message |-> Head(q), rest |-> Tail(q)]

RECURSIVE process_next_task(_)
RECURSIVE after_process_message(_, _)

\* BaseAgent.process_next_task, lines 100-108: up to the end of process_message
\* or to the await that suspends it.
process_next_task(c) ==
    IF c.tq = <<>> THEN c
    ELSE LET t == PopTask(c.tq)
         IN Bind(process_message([c EXCEPT !.tq = t.rest, !.st = "working",
                                           !.handled = Append(@, t.message),
                                           !.started = Append(@, t.message)],
                                 t.message),
                 LAMBDA c2 : IF c2.susp THEN c2 ELSE after_process_message(c2, t.message))

\* BaseAgent.process_next_task, lines 109-118: the except clause, whose
\* send_error_message may itself raise, and the finally clause, which resets
\* the status and drains the queue.  c.exc: an exception is on its way to the
\* caller of the outermost process_next_task; c.failed: the messages for which
\* process_message raised.
after_process_message(c, m) ==
    Bind(IF c.raised
         THEN send_error_message([c EXCEPT !.failed = Append(@, m)], m)
         ELSE c,
         LAMBDA c1 :
           Bind([c1 EXCEPT !.exc = c.exc \/ c1.raised, !.raised = FALSE,
                           !.st = "idle", !.cur = 0],
                LAMBDA c2 : IF c2.tq # <<>> THEN process_next_task(c2) ELSE c2))

\* BaseAgent.handle_message, lines 94-96: an exception that left
\* process_next_task is reported with send_error_message for the message that
\* was delivered; an exception of that call goes to the broker, which logs it.
end_handle_message(c, delivered) ==
    IF c.exc
    THEN [send_error_message(c, delivered) EXCEPT !.exc = FALSE, !.raised = FALSE]
    ELSE c

\* BaseAgent.handle_message without the call of process_next_task: the message
\* only joins the queue.
handle_message_enqueues(c, m) ==
    [c EXCEPT !.tq = Append(@, m)]

\* BaseAgent.handle_message
handle_message(c, m) ==
    Bind([c EXCEPT !.tq = Append(@, m)],
         LAMBDA c1 :
           IF c1.st = "idle"
           THEN Bind(process_next_task(c1),
                     LAMBDA c2 : IF c2.susp THEN c2 ELSE end_handle_message(c2, m))
           ELSE c1)

\* --------------------------------------------------------- MessageBroker
\* A queue that hands out its newest entry first.
QueueGet_lifo(q) == [item |-> q[Len(q)], rest |-> SubSeq(q, 1, Len(q) - 1)]

\* asyncio.Queue.get (message_broker.py 81-84): the oldest entry.
QueueGet(q) == [item |-> Head(q), rest |-> Tail(q)]

RECURSIVE run_callbacks_reports_unroutable(_, _, _, _)
\* A delivery loop that reports a message without subscriber to its sender.
run_callbacks_reports_unroutable(c, m, i, n) ==
    IF n = 0 THEN [send_error_message(c, m) EXCEPT !.cbi = 0, !.raised = FALSE]
    ELSE IF i > n THEN [c EXCEPT !.cbi = 0]
    ELSE Bind(handle_message(c, m),
              LAMBDA c1 : IF c1.susp THEN [c1 EXCEPT !.cbi = i]
                          ELSE run_callbacks_reports_unroutable(c1, m, i + 1, n))

RECURSIVE run_callbacks(_, _, _, _)
\* MessageBroker._process_messages, lines 88-95: the callbacks i..n of the
\* topic are awaited in turn for message m; the loop is left suspended inside
\* callback c.cbi when a handler awaits.
run_callbacks(c, m, i, n) ==
    IF i > n THEN [c EXCEPT !.cbi = 0]
    ELSE Bind(handle_message(c, m),
              LAMBDA c1 : IF c1.susp THEN [c1 EXCEPT !.cbi = i]
                          ELSE run_callbacks(c1, m, i + 1, n))

\* ------------------------------------------------------ LangGraph workflow
\* The phase nodes of the graph in the order of its edges (workflow.py 83-95).
PhaseNodes == <<"business_analysis", "architecture_design", "implementation_planning", "test_strategy_creation">>

\* add_edge: the node that follows each node; START and END are the graph's ends.
Edge ==
    [n \in {"START", "business_analysis", "architecture_design", "implementation_planning", "test_strategy_creation", "completion"} |->
        CASE n = "START" -> "business_analysis"
          [] n = "business_analysis" -> "architecture_design"
          [] n = "architecture_design" -> "implementation_planning"
          [] n = "implementation_planning" -> "test_strategy_creation"
          [] n = "test_strategy_creation" -> "completion"
          [] OTHER -> "END"]

\* What a tool's invoke can do: return a dict whose counted entry is a list,
\* return a dict whose counted entry has no len() (the tools return the parsed
\* LLM JSON, agent_tools.py 62 and 97), or raise.
ToolResults == {"dict", "unsized", "raise"}

\* ProjectState as run_project builds it; messages is the length of the list.
InitialState ==
    [current_phase |-> "initiated", business_analysis |-> "None", system_architecture |-> "None",
     implementation_plan |-> "None", test_strategy |-> "None", messages |-> 1,
     errors |-> <<>>, status |-> "in_progress"]

\* No run of the workflow yet.  tool and ran are history: what each node's
\* tool did and the nodes in the order they ran.
NoRun ==
    [pos |-> "START", invoked |-> FALSE, phase_callback |-> FALSE, state |-> InitialState,
     callbacks |-> <<>>, tool |-> [i \in 1..Len(PhaseNodes) |-> "none"], ran |-> <<>>]

\* The except branch of a phase node: the error is recorded, the run goes on.
phase_failed(w, error_msg) ==
    [w EXCEPT !.state.errors = Append(@, error_msg), !.state.status = "failed"]

\* The try block of a phase node after the tool returned result: the artifact
\* and current_phase are stored, then the message counts the result's entries
\* with len(), then the callback is called.
phase_done(w, artifact, completed, callback_name, error_msg, result) ==
    Bind([w EXCEPT !.state[artifact] = result, !.state.current_phase = completed],
         LAMBDA w1 : IF result = "unsized"
                     THEN phase_failed(w1, error_msg)
                     ELSE [w1 EXCEPT !.state.messages = @ + 1,
                                     !.callbacks = IF w.phase_callback THEN Append(@, callback_name) ELSE @])

\* A phase node as a whole.
phase_node(w, artifact, completed, callback_name, error_msg, result) ==
    IF result = "raise"
    THEN phase_failed(w, error_msg)
    ELSE phase_done(w, artifact, completed, callback_name, error_msg, result)

business_analysis_node(w, result) ==
    phase_node(w, "business_analysis", "business_analysis_completed", "business_analysis", "Business analysis failed", result)

architecture_design_node(w, result) ==
    phase_node(w, "system_architecture", "architecture_design_completed", "architecture", "Architecture design failed", result)

implementation_planning_node(w, result) ==
    phase_node(w, "implementation_plan", "implementation_planning_completed", "implementation", "Implementation planning failed", result)

test_strategy_node(w, result) ==
    phase_node(w, "test_strategy", "test_strategy_completed", "testing", "Test strategy creation failed", result)

completion_node(w) ==
    [w EXCEPT !.state.current_phase = "completed",
              !.state.status = IF w.state.errors = <<>> THEN "completed" ELSE "completed_with_errors",
              !.state.messages = @ + 1]

\* ------------------------------------------------------------------ state
Init ==
    /\ msgs = <<>>
    /\ metadata = <<>>
    /\ connected = [a \in Agents |-> FALSE]
    /\ running = [a \in Agents |-> FALSE]
    /\ subscribers = [a \in Agents |-> [t \in AgentType |-> 0]]
    /\ message_queue = [a \in Agents |-> <<>>]
    /\ tasks = [a \in Agents |-> <<>>]
    /\ status = [a \in Agents |-> "idle"]
    /\ task_queue = [a \in Agents |-> <<>>]
    /\ projects = <<>>
    /\ project_statuses = <<>>
    /\ workflow_history = <<>>
    /\ handled = [a \in Agents |-> <<>>]
    /\ wf = NoRun
    /\ last = NoEvent

\* A _process_messages task waiting in queue.get()
IdleTask == [pc |-> "get", topic |-> "none", item |-> 0, cbi |-> 0, cur |-> 0, exc |-> FALSE]

\* The task's position after the step that ended in context c: suspended in a
\* callback, or back at the top of the loop, where `while self._running` either
\* goes on to queue.get() or ends the task.
TaskAfter(a, c, topic, item) ==
    IF c.susp
    THEN [pc |-> "await", topic |-> topic, item |-> item, cbi |-> c.cbi, cur |-> c.cur, exc |-> c.exc]
    ELSE IF running[a] THEN IdleTask ELSE [IdleTask EXCEPT !.pc = "exit"]

\* process_message executions of agent a that are suspended at an await, other
\* than the one task k is in.
Inflight(a, k) ==
    Cardinality({j \in 1..Len(tasks[a]) : j # k /\ tasks[a][j].pc = "await"})

\* Writes the objects of context c back.
Commit(a, c) ==
    /\ msgs' = c.msgs
    /\ metadata' = c.metadata
    /\ message_queue' = [message_queue EXCEPT ![a] = c.mq]
    /\ status' = [status EXCEPT ![a] = c.st]
    /\ task_queue' = [task_queue EXCEPT ![a] = c.tq]
    /\ handled' = [handled EXCEPT ![a] = c.handled]
    /\ projects' = c.projects
    /\ project_statuses' = c.project_statuses
    /\ workflow_history' = c.workflow_history

\* ---------------------------------------------------------------- actions
\* MessageBroker.connect and MessageBroker.subscribe as BaseAgent.start calls them
connect(a) ==
    /\ connected' = [connected EXCEPT ![a] = TRUE]
    /\ running' = [running EXCEPT ![a] = TRUE]
    /\ tasks' = [tasks EXCEPT ![a] = Append(@, IdleTask)]

subscribe(a, topic) ==
    subscribers' = [subscribers EXCEPT ![a][topic] = @ + 1]

\* BaseAgent.start, called once per agent by MCPServer.start_agents
Start(a) ==
    /\ Len(tasks[a]) = 0
    /\ connect(a)
    /\ subscribe(a, Topic(a))
    /\ status' = [status EXCEPT ![a] = "idle"]
    /\ last' = [NoEvent EXCEPT !.op = "start", !.agent = a]
    /\ UNCHANGED <<wf, msgs, metadata, message_queue, task_queue, projects,
                   project_statuses, workflow_history, handled>>

\* BaseAgent.start called on an agent that was started before: connect()
\* creates another _process_messages task and subscribe() appends
\* handle_message to the topic's callbacks once more.
Restart(a) ==
    /\ Len(tasks[a]) >= 1
    /\ Len(tasks[a]) < MaxStarts
    /\ connect(a)
    /\ subscribe(a, Topic(a))
    /\ status' = [status EXCEPT ![a] = "idle"]
    /\ last' = [NoEvent EXCEPT !.op = "start", !.agent = a]
    /\ UNCHANGED <<wf, msgs, metadata, message_queue, task_queue, projects,
                   project_statuses, workflow_history, handled>>

\* BaseAgent.stop (MessageBroker.disconnect), called by MCPServer.stop_agents
Stop(a) ==
    /\ connected[a]
    /\ running' = [running EXCEPT ![a] = FALSE]
    /\ connected' = [connected EXCEPT ![a] = FALSE]
    /\ status' = [status EXCEPT ![a] = "stopped"]
    /\ last' = [NoEvent EXCEPT !.op = "stop", !.agent = a]
    /\ UNCHANGED <<wf, msgs, metadata, subscribers, message_queue, tasks, task_queue,
                   projects, project_statuses, workflow_history, handled>>

\* A call of MessageBroker.publish_message on agent b's broker with a new
\* Message built from shape sh for project p.
Publish(b, topic, sh, p) ==
    /\ Len(msgs) < MaxMsgs
    /\ LET id == Len(msgs) + 1
       IN \E c0 \in {Ctx(b)} : \E c1 \in {publish_message(c0, topic, id)} :
          /\ message_queue' = [message_queue EXCEPT ![b] = c1.mq]
          /\ IF connected[b]
             THEN /\ msgs' = Append(msgs, Message(sh.from_agent, topic, sh.message_type, sh.content, p))
                  /\ metadata' = Append(metadata, sh.meta)
             ELSE UNCHANGED <<msgs, metadata>>
          /\ last' = [NoEvent EXCEPT !.op = "publish", !.agent = b,
                                     !.msg = IF connected[b] THEN id ELSE 0,
                                     !.project = p, !.dropped = ~connected[b]]
    /\ UNCHANGED <<wf, connected, running, subscribers, tasks, status, task_queue,
                   projects, project_statuses, workflow_history, handled>>

\* One iteration of MessageBroker._process_messages in task k of agent a's
\* broker: queue.get() returns the oldest entry and the topic's callbacks run
\* until the loop is back at queue.get() or a handler awaits.
Deliver(a, k) ==
    /\ k \in 1..Len(tasks[a])
    /\ tasks[a][k].pc = "get"
    /\ message_queue[a] # <<>>
    /\ LET g == QueueGet(message_queue[a])
           topic == g.item[1]
           m == g.item[2]
           n == subscribers[a][topic]
       IN \E c0 \in {[Ctx(a) EXCEPT !.mq = g.rest]} : \E c \in {run_callbacks(c0, m, 1, n)} :
          /\ Commit(a, c)
          /\ tasks' = [tasks EXCEPT ![a][k] = TaskAfter(a, c, topic, m)]
          /\ last' = [NoEvent EXCEPT !.op = "deliver", !.agent = a, !.msg = m,
                                     !.project = msgs[m].project_id,
                                     !.started = c.started, !.sends = c.sends,
                                     !.failed = c.failed,
                                     !.inflight = Inflight(a, k), !.dropped = (n = 0)]
    /\ UNCHANGED <<wf, connected, running, subscribers>>

\* Task k finds _running false at the top of its loop (after the timeout of
\* wait_for) and ends.
LoopExit(a, k) ==
    /\ k \in 1..Len(tasks[a])
    /\ tasks[a][k].pc = "get"
    /\ ~running[a]
    /\ tasks' = [tasks EXCEPT ![a][k].pc = "exit"]
    /\ last' = [NoEvent EXCEPT !.op = "loop_exit", !.agent = a]
    /\ UNCHANGED <<wf, msgs, metadata, connected, running, subscribers, message_queue,
                   status, task_queue, projects, project_statuses, workflow_history,
                   handled>>

\* The query_llm call that the handler in task k awaits returns or raises: the
\* handler runs to its end, process_next_task drains the queue, and the broker
\* loop goes on with the remaining callbacks.
LLMReturn(a, k, outcome) ==
    /\ k \in 1..Len(tasks[a])
    /\ tasks[a][k].pc = "await"
    /\ outcome \in LLMOutcomes(a, msgs[tasks[a][k].cur].message_type)
    /\ LET t == tasks[a][k]
       IN \E c0 \in {[Ctx(a) EXCEPT !.cur = t.cur, !.exc = t.exc, !.susp = TRUE]} :
          \E c1 \in {resume_message(c0, t.cur, outcome)} :
          \E c2 \in {after_process_message(c1, t.cur)} :
          \E c3 \in {IF c2.susp THEN [c2 EXCEPT !.cbi = t.cbi]
                      ELSE Bind(end_handle_message(c2, t.item),
                                LAMBDA c : run_callbacks(c, t.item, t.cbi + 1,
                                                         subscribers[a][t.topic]))} :
          /\ Commit(a, c3)
          /\ tasks' = [tasks EXCEPT ![a][k] = TaskAfter(a, c3, t.topic, t.item)]
          /\ last' = [NoEvent EXCEPT !.op = "llm_return", !.agent = a, !.msg = t.cur,
                                     !.project = msgs[t.cur].project_id,
                                     !.outcome = outcome,
                                     !.started = c3.started, !.sends = c3.sends,
                                     !.failed = c3.failed,
                                     !.inflight = Inflight(a, k)]
    /\ UNCHANGED <<wf, connected, running, subscribers>>

\* uuid.uuid4(): a project id that occurs nowhere yet.
FreshProjects ==
    {p \in ProjectIds :
        /\ p \notin DOMAIN projects
        /\ p \notin DOMAIN project_statuses
        /\ p \notin DOMAIN workflow_history
        /\ \A i \in 1..Len(msgs) : msgs[i].project_id # p}

\* OrchestratorAgent.start_project: builds the self-addressed SPECIFICATION and
\* awaits process_message on it directly.
StartProject(content) ==
    /\ connected["orchestrator"]
    /\ Len(msgs) < MaxMsgs
    /\ FreshProjects # {}
    /\ LET p == CHOOSE q \in FreshProjects : \A r \in FreshProjects : q <= r
           id == Len(msgs) + 1
       IN \E c0 \in {[Ctx("orchestrator") EXCEPT
                         !.msgs = Append(@, Message("orchestrator", "orchestrator",
                                                    "specification", content, p)),
                         !.metadata = Append(@, EmptyMeta)]} :
          \E c1 \in {process_message(c0, id)} :
          /\ Commit("orchestrator", c1)
          /\ last' = [NoEvent EXCEPT !.op = "start_project", !.agent = "orchestrator",
                                     !.msg = id, !.project = p, !.ret = p,
                                     !.started = <<id>>, !.sends = c1.sends,
                                     !.inflight = Inflight("orchestrator", 0)]
    /\ UNCHANGED <<wf, connected, running, subscribers, tasks>>

\* The unresolved QUERY messages of a history, oldest first
\* (orchestrator_agent.py 668-669).
PendingQueries(c, project_id) ==
    LET workflow == IF project_id \in DOMAIN c.workflow_history
                    THEN c.workflow_history[project_id] ELSE <<>>
    IN SelectSeq(workflow, LAMBDA id : /\ c.msgs[id].message_type = "query"
                                        /\ ~c.metadata[id].resolved)

\* A send_user_clarification that marks the query resolved before it knows
\* whether the forward went through.
send_user_clarification_resolves_first(c, project_id, clarification) ==
    LET pending_queries == PendingQueries(c, project_id)
    IN IF pending_queries # <<>>
       THEN LET latest_query == pending_queries[Len(pending_queries)]
            IN Bind([c EXCEPT !.metadata[latest_query].resolved = TRUE],
                    LAMBDA c1 : send_message(c1, c.msgs[latest_query].from_agent, "response",
                                             clarification, project_id, EmptyMeta))
       ELSE c

\* OrchestratorAgent.send_user_clarification; c.raised tells the return value
\* apart: the call returns True only past the send.
send_user_clarification(c, project_id, clarification) ==
    LET pending_queries == PendingQueries(c, project_id)
    IN IF pending_queries # <<>>
       THEN LET latest_query == pending_queries[Len(pending_queries)]
            IN Bind(send_message(c, c.msgs[latest_query].from_agent, "response",
                                 clarification, project_id, EmptyMeta),
                    LAMBDA c1 : IF c1.raised THEN c1
                                ELSE [c1 EXCEPT !.metadata[latest_query].resolved = TRUE])
       ELSE c

SendUserClarification(p) ==
    /\ connected["orchestrator"]
    /\ \E c0 \in {Ctx("orchestrator")} :
       \E c1 \in {send_user_clarification(c0, p, "clarification")} :
       \E pending \in {PendingQueries(c0, p)} :
          /\ Commit("orchestrator", [c1 EXCEPT !.raised = FALSE])
          /\ last' = [NoEvent EXCEPT !.op = "send_user_clarification",
                                     !.agent = "orchestrator", !.project = p,
                                     !.pending = pending, !.sends = c1.sends,
                                     !.ret = IF pending # <<>> /\ ~c1.raised THEN 1 ELSE 0]
    /\ UNCHANGED <<wf, connected, running, subscribers, tasks>>

\* ------------------------------------------------------------ environment
Shape(from_agent, message_type, content, meta) ==
    [from_agent |-> from_agent, message_type |-> message_type,
     content |-> content, meta |-> meta]

\* Messages published by outside code in the broker specification: for each
\* agent one that it handles without awaiting and one at which it awaits, and
\* for BA a question of another worker (ba_agent.py 543), from three senders.
PipelineShapes ==
    {Shape("orchestrator", "specification", "spec A", EmptyMeta),
     Shape("tester", "status", "qa report", Meta("unknown", TRUE, FALSE)),
     Shape("developer", "query", "question", EmptyMeta)}

\* Messages delivered to the Orchestrator in the workflow specification: every
\* branch of process_message and of the handlers it dispatches to.
OrchShapes ==
    {Shape("orchestrator", "specification", "spec A", EmptyMeta)}
    \cup {Shape(a, "query", "question", EmptyMeta) : a \in {"ba", "architect"}}
    \cup {Shape("ba", "status", "progress", Meta(ph, FALSE, FALSE)) :
            ph \in {"test_preparation_complete", "development_complete", "unknown"}}
    \cup {Shape("architect", "status", "progress", Meta("unknown", FALSE, FALSE))}
    \cup {Shape("developer", "status", "progress", Meta(ph, FALSE, FALSE)) :
            ph \in {"development_complete", "unknown"}}
    \cup {Shape("tester", "status", "progress", Meta("unknown", so, FALSE)) : so \in BOOLEAN}
    \cup {Shape(a, "error", "Error processing", EmptyMeta) : a \in {"ba", "tester", "orchestrator"}}
    \cup {Shape("orchestrator", "response", "answer", Meta("unknown", FALSE, TRUE))}

Contents == {"spec A", "spec B"}

\* The broker and mailbox of every agent, with the public calls of the server.
Next ==
    \/ \E a \in Agents : Start(a)
    \/ \E a \in Agents : Stop(a)
    \/ \E b \in Agents, t \in Agents, sh \in PipelineShapes : Publish(b, Topic(t), sh, 1)
    \/ \E a \in Agents : \E k \in 1..Len(tasks[a]) : Deliver(a, k)
    \/ \E a \in Agents : \E k \in 1..Len(tasks[a]) : LoopExit(a, k)
    \/ \E a \in Agents : \E k \in 1..Len(tasks[a]), o \in {"ok", "clarify", "proceed", "raise"} :
          LLMReturn(a, k, o)
    \/ StartProject("spec A")
    \/ \E p \in ProjectIds : SendUserClarification(p)

Spec == Init /\ [][Next]_vars

\* The Orchestrator's project state machine under every message it can be
\* delivered and the public calls of the server.
NextOrch ==
    \/ Start("orchestrator")
    \/ \E sh \in OrchShapes, p \in EnvProjects : Publish("orchestrator", Topic("orchestrator"), sh, p)
    \/ \E k \in 1..Len(tasks["orchestrator"]) : Deliver("orchestrator", k)
    \/ \E k \in 1..Len(tasks["orchestrator"]), o \in {"ok", "raise"} : LLMReturn("orchestrator", k, o)
    \/ \E content \in Contents : StartProject(content)
    \/ \E p \in ProjectIds : SendUserClarification(p)

SpecOrch == Init /\ [][NextOrch]_vars

\* The message of the nominal workflow that outside code may hand to a broker:
\* the Orchestrator's SPECIFICATION.  No sign-off is injected.
NominalShapes == {Shape("orchestrator", "specification", "spec A", EmptyMeta)}

\* The nominal run: every agent is started and stays so, every LLM call
\* returns, and no handler asks for clarification.
NextNominal ==
    \/ \E a \in Agents : Start(a)
    \/ \E b \in Agents, t \in Agents, sh \in NominalShapes : Publish(b, Topic(t), sh, 1)
    \/ \E a \in Agents : \E k \in 1..Len(tasks[a]) : Deliver(a, k)
    \/ \E a \in Agents : \E k \in 1..Len(tasks[a]), o \in {"ok", "proceed"} : LLMReturn(a, k, o)
    \/ StartProject("spec A")

\* The event loop runs every ready task: a broker loop with a queued entry
\* gets it, and an awaited LLM call returns.
SpecNominal ==
    /\ Init /\ [][NextNominal]_vars
    /\ WF_vars(\E a \in Agents : \E k \in 1..Len(tasks[a]) : Deliver(a, k))
    /\ WF_vars(\E a \in Agents : \E k \in 1..Len(tasks[a]), o \in {"ok", "proceed"} :
                  LLMReturn(a, k, o))

\* The broker and mailbox of every agent when start() may be called again on
\* an agent, before or after stop(); messages are published to an agent's
\* topic on that agent's broker.
NextRestart ==
    \/ \E a \in Agents : Start(a)
    \/ \E a \in Agents : Restart(a)
    \/ \E a \in Agents : Stop(a)
    \/ \E a \in Agents, sh \in PipelineShapes : Publish(a, Topic(a), sh, 1)
    \/ \E a \in Agents : \E k \in 1..Len(tasks[a]) : Deliver(a, k)
    \/ \E a \in Agents : \E k \in 1..Len(tasks[a]) : LoopExit(a, k)
    \/ \E a \in Agents : \E k \in 1..Len(tasks[a]), o \in {"ok", "clarify", "proceed", "raise"} :
          LLMReturn(a, k, o)

SpecRestart == Init /\ [][NextRestart]_vars

\* ------------------------------------------------- LangGraph workflow run
\* The variables of the agents, which a run of the workflow leaves alone.
agent_vars == <<msgs, metadata, connected, running, subscribers, message_queue, tasks, status, task_queue, projects, project_statuses, workflow_history, handled, last>>

\* The graph has run node wf.pos, which left w, and moves along its edge.
Traverse(w) == [w EXCEPT !.pos = Edge[wf.pos], !.ran = Append(@, wf.pos)]

\* run_project with or without a phase_callback: the state is initialised and
\* the graph is entered at START's edge.
RunProject(phase_callback) ==
    /\ ~wf.invoked
    /\ wf' = [NoRun EXCEPT !.invoked = TRUE, !.phase_callback = phase_callback, !.pos = Edge["START"]]
    /\ UNCHANGED agent_vars

BusinessAnalysis(result) ==
    /\ wf.invoked
    /\ wf.pos = "business_analysis"
    /\ wf' = Traverse(business_analysis_node([wf EXCEPT !.tool[1] = result], result))
    /\ UNCHANGED agent_vars

ArchitectureDesign(result) ==
    /\ wf.invoked
    /\ wf.pos = "architecture_design"
    /\ wf' = Traverse(architecture_design_node([wf EXCEPT !.tool[2] = result], result))
    /\ UNCHANGED agent_vars

ImplementationPlanning(result) ==
    /\ wf.invoked
    /\ wf.pos = "implementation_planning"
    /\ wf' = Traverse(implementation_planning_node([wf EXCEPT !.tool[3] = result], result))
    /\ UNCHANGED agent_vars

TestStrategy(result) ==
    /\ wf.invoked
    /\ wf.pos = "test_strategy_creation"
    /\ wf' = Traverse(test_strategy_node([wf EXCEPT !.tool[4] = result], result))
    /\ UNCHANGED agent_vars

Completion ==
    /\ wf.invoked
    /\ wf.pos = "completion"
    /\ wf' = Traverse(completion_node(wf))
    /\ UNCHANGED agent_vars

\* One run of the workflow under every behaviour of its four tools.
NextWorkflow ==
    \/ \E phase_callback \in BOOLEAN : RunProject(phase_callback)
    \/ \E result \in ToolResults : BusinessAnalysis(result)
    \/ \E result \in ToolResults : ArchitectureDesign(result)
    \/ \E result \in ToolResults : ImplementationPlanning(result)
    \/ \E result \in ToolResults : TestStrategy(result)
    \/ Completion

SpecWorkflow == Init /\ [][NextWorkflow]_vars

\* ================================================================ claims
\* The ids of sequence q whose message was sent by s.
FromSender(q, s) == SelectSeq(q, LAMBDA id : msgs[id].from_agent = s)

\* The ids that agent a's own broker still holds for a's topic.
QueuedFor(a) ==
    LET own == SelectSeq(message_queue[a], LAMBDA e : e[1] = Topic(a))
    IN [i \in 1..Len(own) |-> own[i][2]]

Increasing(q) == \A i, j \in 1..Len(q) : i < j => q[i] < q[j]

\* C1: FIFO per route.  Message ids grow in the order of the publish_message
\* calls, so for every recipient and every sender the messages already handed
\* to process_message, then those waiting in the task queue, then those waiting
\* in the broker queue for the recipient's topic, are in publish order, each
\* once.
C1_FifoPerRoute ==
    \A a \in Agents : \A s \in AgentType :
        Increasing(FromSender(handled[a], s) \o FromSender(task_queue[a], s)
                   \o FromSender(QueuedFor(a), s))

\* C1 witness: an agent has handled two messages of one sender.
C1_Witness ==
    \E a \in Agents : \E s \in AgentType : Len(FromSender(handled[a], s)) >= 2

\* C2: single-writer isolation.  Whenever a step starts a process_message
\* execution of an agent, no other execution of that agent is suspended at an
\* await, and no agent ever has two executions suspended.
C2_SingleWriter ==
    /\ last.started # <<>> => last.inflight = 0
    /\ \A a \in Agents : Inflight(a, 0) <= 1

\* A send_message call was made between two started, connected agents.
Started(a) == a \in Agents /\ Len(tasks[a]) > 0 /\ connected[a]

\* C3: cross-agent delivery.  A message that started agent X sends to another
\* started agent Y is accepted by the broker on which Y's handle_message is
\* subscribed, which is the only way into Y's task queue.
C3_CrossAgentDelivery ==
    \A i \in 1..Len(last.sends) :
        LET s == last.sends[i]
        IN (s.to_agent # s.from_agent /\ Started(s.from_agent) /\ Started(s.to_agent))
           => s.route = s.to_agent

\* C4: publish never blocks the publisher.  Every send_message call on a
\* connected broker completes, without raising, by enqueueing the message.
C4_PublishNeverBlocks ==
    \A i \in 1..Len(last.sends) :
        LET s == last.sends[i]
        IN connected[s.from_agent] => (~s.raised /\ s.route # "none")

\* C5: most-recent-query-wins.  A send_user_clarification call that finds two
\* or more unresolved QUERYs resolves the latest, leaves the earlier ones
\* unresolved, forwards exactly one RESPONSE to the latest one's sender and
\* returns True.
C5_MostRecentQueryWins ==
    (last.op = "send_user_clarification" /\ Len(last.pending) >= 2)
    => LET n == Len(last.pending)
           q2 == last.pending[n]
       IN /\ metadata[q2].resolved
          /\ \A i \in 1..(n - 1) : ~metadata[last.pending[i]].resolved
          /\ Len(last.sends) = 1
          /\ last.sends[1].to_agent = msgs[q2].from_agent
          /\ last.sends[1].message_type = "response"
          /\ last.sends[1].route # "none"
          /\ last.ret = 1

\* The step just taken handed an ERROR (a STATUS) message of project p to the
\* Orchestrator's process_message.
Processed(type, p) ==
    /\ last'.agent = "orchestrator"
    /\ \E i \in 1..Len(last'.started) :
          /\ msgs'[last'.started[i]].message_type = type
          /\ msgs'[last'.started[i]].project_id = p

\* C6: recovery idempotence.  Once a project is failed, an ERROR message for it
\* changes nothing of its ProjectStatus (the phase stays failed and no second
\* escalation is recorded) and no recovery message is attempted.
C6_RecoveryIdempotence ==
    [][\A p \in DOMAIN project_statuses :
          (project_statuses[p].current_phase = "failed" /\ Processed("error", p))
          => (project_statuses'[p] = project_statuses[p] /\ last'.sends = <<>>)]_vars

\* C7: completion monotonicity.  A step lowers a project's
\* completion_percentage only if it leaves the project failed or in
\* workflow_restart.
C7_CompletionMonotonic ==
    [][\A p \in DOMAIN project_statuses :
          project_statuses'[p].completion_percentage < project_statuses[p].completion_percentage
          => project_statuses'[p].current_phase \in {"failed", "workflow_restart"}]_vars

\* C8: a STATUS message for a project the Orchestrator does not know creates
\* no ProjectStatus and changes no project state.
C8_UnknownStatusIgnored ==
    [][\A p \in ProjectIds :
          (p \notin DOMAIN projects /\ p \notin DOMAIN project_statuses /\ Processed("status", p))
          => (project_statuses' = project_statuses /\ projects' = projects)]_vars

\* C9: project entry.  After start_project the project is recorded with its
\* content, its status is requirements_analysis, 0, [BA], and exactly one
\* SPECIFICATION with that content went to BA and was accepted by a broker.
C9_ProjectEntry ==
    last.op = "start_project"
    => LET p == last.ret
       IN /\ p \in DOMAIN projects
          /\ projects[p] = msgs[last.msg].content
          /\ p \in DOMAIN project_statuses
          /\ project_statuses[p].current_phase = "requirements_analysis"
          /\ project_statuses[p].completion_percentage = 0
          /\ project_statuses[p].active_agents = <<"ba">>
          /\ Len(last.sends) = 1
          /\ last.sends[1].to_agent = "ba"
          /\ last.sends[1].message_type = "specification"
          /\ last.sends[1].content = projects[p]
          /\ last.sends[1].route # "none"

IsSignoff(id) ==
    /\ msgs[id].message_type = "status"
    /\ msgs[id].from_agent = "tester"
    /\ metadata[id].qa_signoff

Completed(p) ==
    /\ p \in DOMAIN project_statuses
    /\ project_statuses[p].current_phase = "completed"
    /\ project_statuses[p].completion_percentage = 100
    /\ project_statuses[p].active_agents = <<>>

\* C10: completion.  When the Orchestrator's process_message has taken up a
\* STATUS from TESTER with qa_signoff true, and again when that handler ends,
\* whether the final summary's LLM call returned or raised, the project is
\* completed, at 100, with no active agents.
C10_Completion ==
    /\ (last.agent = "orchestrator" /\ last.started # <<>> /\ IsSignoff(last.started[Len(last.started)]))
       => Completed(msgs[last.started[Len(last.started)]].project_id)
    /\ (last.agent = "orchestrator" /\ last.op = "llm_return" /\ last.started = <<>>)
       => Completed(last.project)

\* C10 witness: the handler of a sign-off ended after the summary's LLM call
\* raised, for a project that had active agents from an earlier STATUS.
C10_Witness ==
    /\ last.agent = "orchestrator" /\ last.op = "llm_return" /\ last.outcome = "raise"
    /\ Len(workflow_history[last.project]) >= 2
    /\ msgs[workflow_history[last.project][1]].message_type = "status"
    /\ msgs[workflow_history[last.project][1]].from_agent = "architect"
    /\ Completed(last.project)

\* The last step delivered an ERROR message to the Orchestrator, whose
\* process_message ran its handler to the end.
ErrorProcessed ==
    /\ last.op = "deliver" /\ last.agent = "orchestrator"
    /\ last.started = <<last.msg>>
    /\ msgs[last.msg].message_type = "error"

\* C11: recovery dispatch.  After an ERROR from X is processed, exactly one
\* SPECIFICATION was published: for a worker X it went to X marked
\* recovery_attempt and the phase is error_recovery; for any other X it went to
\* BA with the stored specification and the phase is workflow_restart.
C11_RecoveryDispatch ==
    ErrorProcessed
    => LET x == msgs[last.msg].from_agent
           p == msgs[last.msg].project_id
       IN /\ Len(last.sends) = 1
          /\ last.sends[1].message_type = "specification"
          /\ last.sends[1].route # "none"
          /\ IF x \in {"ba", "architect", "developer", "tester"}
             THEN /\ last.sends[1].to_agent = x
                  /\ last.sends[1].meta.recovery_attempt
                  /\ project_statuses[p].current_phase = "error_recovery"
             ELSE /\ last.sends[1].to_agent = "ba"
                  /\ p \in DOMAIN projects
                  /\ last.sends[1].content = projects[p]
                  /\ project_statuses[p].current_phase = "workflow_restart"

\* The issues recorded for project p, none if it has no ProjectStatus.
Issues(p) == IF p \in DOMAIN project_statuses THEN project_statuses[p].issues ELSE <<>>

\* C12: escalation.  A step that processes an ERROR whose recovery send raises
\* leaves the project failed, with one more issue, a critical-error entry,
\* than before, with no active agents, and with no recovery message accepted
\* by any broker.
C12_Escalation ==
    [][(ErrorProcessed' /\ \E i \in 1..Len(last'.sends) : last'.sends[i].raised)
       => LET p == msgs'[last'.msg].project_id
          IN /\ project_statuses'[p].current_phase = "failed"
             /\ \E e \in {"Critical error: AttributeError",
                           "Critical error: Workflow restart failed"} :
                   project_statuses'[p].issues = Issues(p) \o <<e>>
             /\ project_statuses'[p].active_agents = <<>>
             /\ \A i \in 1..Len(last'.sends) : last'.sends[i].route = "none"]_vars

\* C12 witness: the recovery of an ERROR for a started project, which had BA
\* as its active agent, raised and the project was escalated.
C12_Witness ==
    /\ ErrorProcessed
    /\ \E i \in 1..Len(last.sends) : last.sends[i].raised
    /\ msgs[last.msg].project_id \in DOMAIN projects
    /\ project_statuses[msgs[last.msg].project_id].current_phase = "failed"

\* C13: handler failure is contained.  For every message m whose
\* process_message raised in the last step, an ERROR for m's project addressed
\* to m.from_agent was accepted by a broker, and the agent went on: unless a
\* later handler is suspended at an await, it is idle with an empty task queue.
C13_HandlerFailureContained ==
    \A i \in 1..Len(last.failed) :
        LET m == last.failed[i]
        IN /\ \E j \in 1..Len(last.sends) :
                 /\ last.sends[j].message_type = "error"
                 /\ last.sends[j].to_agent = msgs[m].from_agent
                 /\ last.sends[j].project_id = msgs[m].project_id
                 /\ last.sends[j].route # "none"
           /\ Inflight(last.agent, 0) = 0
              => (status[last.agent] = "idle" /\ task_queue[last.agent] = <<>>)

\* C14: every ERROR message a worker agent produces for a failing handler is
\* addressed to the ORCHESTRATOR.
C14_ErrorsToOrchestrator ==
    \A i \in 1..Len(last.sends) :
        (last.sends[i].message_type = "error"
         /\ last.sends[i].from_agent \in {"ba", "architect", "developer", "tester"})
        => last.sends[i].to_agent = "orchestrator"

\* The message ids a queue of (topic, id) entries holds.
QueuedIds(q) == {q[i][2] : i \in 1..Len(q)}

\* C15: unroutable messages are dropped.  A delivery step that finds no
\* subscriber for the topic removes the entry from the broker queue, leaving
\* the entries behind it in place, touches no mailbox and no agent status,
\* builds and sends no message, raises nothing, and leaves the loop of a
\* running broker where it was, ready for the next entry.
C15_UnroutableDropped ==
    [][(last'.op = "deliver" /\ last'.dropped)
       => LET a == last'.agent
          IN /\ message_queue' = [message_queue EXCEPT ![a] = Tail(@)]
             /\ task_queue' = task_queue /\ handled' = handled /\ status' = status
             /\ msgs' = msgs /\ metadata' = metadata
             /\ last'.sends = <<>> /\ last'.failed = <<>> /\ last'.started = <<>>
             /\ running[a] => tasks' = tasks]_vars

\* C15 witness: message 1, published for BA's topic on the Orchestrator's
\* broker, is in no queue and no mailbox and was handled by no agent, and
\* message 2, published behind it, has just been delivered to the Orchestrator.
C15_Witness ==
    /\ last.op = "deliver" /\ last.agent = "orchestrator" /\ last.msg = 2 /\ ~last.dropped
    /\ last.started = <<2>>
    /\ msgs[1].to_agent = "ba"
    /\ \A a \in Agents :
          /\ 1 \notin QueuedIds(message_queue[a])
          /\ \A i \in 1..Len(handled[a]) : handled[a][i] # 1
          /\ \A i \in 1..Len(task_queue[a]) : task_queue[a][i] # 1

\* C16: nominal workflow liveness.  Once every agent is started and project 1
\* has been started with start_project, the project eventually is completed,
\* at 100.
C16_NominalLiveness ==
    (1 \in DOMAIN projects /\ \A a \in Agents : Started(a)) ~> Completed(1)

\* The phases whose tool raised in the run.
Raised == {i \in 1..Len(PhaseNodes) : wf.tool[i] = "raise"}

\* The artifact each phase stores, in the order of PhaseNodes.
Artifacts == <<wf.state.business_analysis, wf.state.system_architecture, wf.state.implementation_plan, wf.state.test_strategy>>

\* C17: in the state the workflow returns, the five nodes have run once each
\* in the order of the edges whatever the tools did, each phase's artifact is
\* non-null exactly when its tool did not raise, errors holds one entry per
\* phase whose tool raised, and current_phase is "completed" when no tool raised.
C17_WorkflowResult ==
    wf.pos = "END" =>
        /\ wf.ran = PhaseNodes \o <<"completion">>
        /\ \A i \in 1..Len(PhaseNodes) : (Artifacts[i] # "None") <=> (i \notin Raised)
        /\ Len(wf.state.errors) = Cardinality(Raised)
        /\ Raised = {} => wf.state.current_phase = "completed"

\* The ERROR messages from agent x that the Orchestrator has recorded for
\* project p, each of which it answered with a recovery attempt.
ErrorsFrom(x, p) ==
    IF p \in DOMAIN workflow_history
    THEN SelectSeq(workflow_history[p], LAMBDA id : msgs[id].message_type = "error" /\ msgs[id].from_agent = x)
    ELSE <<>>

C19_StoppedTerminal ==
    [][\A a \in Agents :
          status[a] = "stopped" => (status'[a] = "stopped" /\ handled'[a] = handled[a])]_vars

C21_AtMostOnce ==
    \A a \in Agents : \A i, j \in 1..Len(handled[a]) : i # j => handled[a][i] # handled[a][j]

\* The ids of the messages in the workflow history h of any project.
InHistory(h) == UNION {{h[p][i] : i \in 1..Len(h[p])} : p \in DOMAIN h}

\* C22: messages are immutable.  A step leaves every field and the metadata of
\* each message unchanged that was constructed before the step and is in a
\* workflow history after it (process_message appends a message before it
\* does anything else with it).
C22_MessagesImmutable ==
    [][\A id \in DOMAIN msgs :
          id \in InHistory(workflow_history')
          => (msgs'[id] = msgs[id] /\ metadata'[id] = metadata[id])]_vars

\* How often message id occurs in the workflow history of its project.
Recorded(id) ==
    IF msgs[id].project_id \in DOMAIN workflow_history
    THEN Len(SelectSeq(workflow_history[msgs[id].project_id], LAMBDA x : x = id))
    ELSE 0

\* C23: workflow history completeness.  Every message that the broker has
\* delivered to an agent's handler, whichever agent it is, occurs exactly once
\* in the workflow history of its project.
C23_HistoryComplete ==
    \A a \in Agents : \A i \in 1..Len(handled[a]) : Recorded(handled[a][i]) = 1

\* The phases of the nominal order with their position in it.
NominalRank ==
    [ph \in {"requirements_analysis", "architecture_design", "development", "qa_testing", "qa_review", "completed"} |->
        CASE ph = "requirements_analysis" -> 1
          [] ph = "architecture_design" -> 2
          [] ph = "development" -> 3
          [] ph \in {"qa_testing", "qa_review"} -> 4
          [] OTHER -> 5]

SidePhases == {"awaiting_clarification", "error_recovery", "workflow_restart"}

PhaseDomain == DOMAIN NominalRank \cup SidePhases \cup {"failed"}

\* The edges of the phase graph, read generously: a phase may stay, move
\* forward in the nominal order, enter a side phase or failed, and leave a side
\* phase for any nominal phase; failed has no way out.
PhaseEdge(x, y) ==
    \/ x = y
    \/ /\ x # "failed"
       /\ \/ y \in SidePhases \cup {"failed"}
          \/ x \in SidePhases /\ y \in DOMAIN NominalRank
          \/ x \in DOMAIN NominalRank /\ y \in DOMAIN NominalRank /\ NominalRank[x] <= NominalRank[y]

\* C24: phase domain.  After every step each project's current_phase is one of
\* the ten phases, and a step changes it only along an edge of the phase graph.
C24_PhaseDomain ==
    [][\A p \in DOMAIN project_statuses' :
          /\ project_statuses'[p].current_phase \in PhaseDomain
          /\ p \in DOMAIN project_statuses
             => PhaseEdge(project_statuses[p].current_phase, project_statuses'[p].current_phase)]_vars

\* The progress markers that some status handler tests for.
KnownMarkers == {"test_preparation_complete", "development_complete"}

\* The step just taken handed to the Orchestrator's process_message exactly one
\* message: a STATUS from a worker with an unknown marker and no sign-off.
UnknownMarkerProcessed ==
    /\ last.op = "deliver" /\ last.agent = "orchestrator"
    /\ last.started = <<last.msg>>
    /\ msgs[last.msg].message_type = "status"
    /\ msgs[last.msg].from_agent \in {"ba", "architect", "developer", "tester"}
    /\ metadata[last.msg].phase \notin KnownMarkers
    /\ ~metadata[last.msg].qa_signoff

\* C25: unknown progress markers are harmless.  A step that processes such a
\* STATUS leaves the project's current_phase, completion_percentage,
\* active_agents and next_actions as they were.
C25_UnknownMarkerHarmless ==
    [][UnknownMarkerProcessed'
       => LET p == msgs'[last'.msg].project_id
          IN IF p \in DOMAIN project_statuses
             THEN /\ project_statuses'[p].current_phase = project_statuses[p].current_phase
                  /\ project_statuses'[p].completion_percentage = project_statuses[p].completion_percentage
                  /\ project_statuses'[p].active_agents = project_statuses[p].active_agents
                  /\ project_statuses'[p].next_actions = project_statuses[p].next_actions
             ELSE p \notin DOMAIN project_statuses']_vars

\* The ERROR sends that the worker agent of the last step attempted, in order.
ErrorSends == SelectSeq(last.sends, LAMBDA snd : snd.message_type = "error")

\* C26: error attribution.  In every step of a worker agent, the ERROR
\* messages it sent are one per message whose handler raised in that step, in
\* that order, each accepted by a broker, addressed to the sender of that
\* message and carrying its id as original_message_id.
C26_ErrorAttribution ==
    last.agent \in Agents \ {"orchestrator"}
    => /\ Len(ErrorSends) = Len(last.failed)
       /\ \A i \in 1..Len(ErrorSends) :
             i <= Len(last.failed)
             => /\ ErrorSends[i].route # "none"
                /\ ErrorSends[i].to_agent = msgs[last.failed[i]].from_agent
                /\ ErrorSends[i].meta.original_message_id = last.failed[i]

\* The last step was a send_user_clarification call whose forward went through.
Forwarded == Len(last.sends) = 1 /\ ~last.sends[1].raised /\ last.sends[1].route # "none"

C28_NoSilentStall ==
    ErrorProcessed
    => LET p == msgs[last.msg].project_id
       IN \/ \E i \in 1..Len(last.sends) :
                /\ last.sends[i].message_type = "specification"
                /\ last.sends[i].project_id = p
                /\ last.sends[i].route # "none"
          \/ project_statuses[p].current_phase = "failed"

\* What the Orchestrator holds about project q: its stored specification, its
\* ProjectStatus and its workflow history, "none" where it has no entry.
Entries(q, pr, ps, wh) ==
    <<IF q \in DOMAIN pr THEN <<pr[q]>> ELSE <<>>,
      IF q \in DOMAIN ps THEN <<ps[q]>> ELSE <<>>,
      IF q \in DOMAIN wh THEN <<wh[q]>> ELSE <<>> >>

\* A step of the Orchestrator for one project: a delivery, the end of an
\* awaited call, start_project or send_user_clarification.
OrchestratorStep ==
    /\ last.agent = "orchestrator"
    /\ last.op \in {"deliver", "llm_return", "start_project", "send_user_clarification"}

\* C29: per-project isolation.  A step of the Orchestrator for project P
\* leaves the stored specification, status and history of every other project
\* as they were.
C29_ProjectIsolation ==
    [][OrchestratorStep'
       => \A q \in (EnvProjects \cup ProjectIds) \ {last'.project} :
             Entries(q, projects', project_statuses', workflow_history')
             = Entries(q, projects, project_statuses, workflow_history)]_vars

\* C29 witness: the Orchestrator changed the status of one project while it
\* holds a specification and a status for another.
C29_Witness ==
    /\ OrchestratorStep
    /\ last.project \in DOMAIN project_statuses
    /\ \E q \in DOMAIN projects \cap DOMAIN project_statuses : q # last.project
    /\ last.started # <<>>

====
